---------------------------- MODULE Spec2Model ----------------------------
(***************************************************************************)
(* map-trait: the Map and Set traits, their implementations for the hash   *)
(* and ordered-tree containers, the LastInsertMap / LastInsertSet          *)
(* decorators and the AsyncMap adapter with its two futures.               *)
(*                                                                         *)
(* A behaviour is one client program.  It starts with a fresh container    *)
(* (a map, a set, or a map used through the AsyncMap adapter), calls the   *)
(* trait methods on it, and may move a map or a set into a decorator       *)
(* (LastInsertMap::new, LastInsertSet::new), after which the calls go      *)
(* through the decorator.                                                  *)
(***************************************************************************)
EXTENDS Integers, Sequences, FiniteSets, TLC

\* Keys (and set members) are 0..MaxKey, values are 1..MaxVal.
MaxKey == 2
MaxVal == 2
\* A future is polled at most MaxPolls times.
MaxPolls == 2

Keys == 0..MaxKey
Vals == 1..MaxVal

\* The hash table has fewer buckets than there are keys, so two keys collide.
NumBuckets == MaxKey

VARIABLES
    subject,    \* what the client holds: "Map", "Set", "LastInsertMap",
                \* "LastInsertSet" or "AsyncMap"
    map,        \* the map of a "Map" / "AsyncMap" client
    set,        \* the set of a "Set" client
    lim,        \* the LastInsertMap: [inner_map, last_key, last_value]
    lis,        \* the LastInsertSet: [inner_set, last_value]
    fut,        \* the future the AsyncMap client holds, or NoFuture
    call,       \* the most recent call and what it returned
    twin,       \* a bare container that received the same calls directly
                \* and what its last call returned, while it is in step
    lastIns     \* the arguments of the decorator's most recent insert (or new)

vars == <<subject, map, set, lim, lis, fut, call, twin, lastIns>>

-----------------------------------------------------------------------------
\* Option<T>, (), Poll<T>

None == <<>>
Some(v) == <<v>>
Unit == <<>>
Ready(x) == <<"Ready", x>>

\* The value of a variable whose object the client does not hold.
Absent == "absent"

-----------------------------------------------------------------------------
\* std::collections::HashMap: buckets of (key, value) entries.

Hash(k) == (k % NumBuckets) + 1

\* The position of key k in a list of entries, 0 when there is none.
IndexOf(entries, k) ==
    IF \E i \in 1..Len(entries) : entries[i][1] = k
    THEN CHOOSE i \in 1..Len(entries) : entries[i][1] = k
    ELSE 0

HashMap_new == [kind |-> "hash", data |-> [b \in 1..NumBuckets |-> <<>>]]

HashMap_get(m, k) ==
    LET bucket == m.data[Hash(k)]
        i == IndexOf(bucket, k)
    IN  [self |-> m, ret |-> IF i > 0 THEN Some(bucket[i][2]) ELSE None]

\* HashMap_insert returning the value it stored instead of the one it
\* displaced.
HashMap_insert_returns_new(m, k, v) ==
    LET h == Hash(k)
        bucket == m.data[h]
        i == IndexOf(bucket, k)
    IN  IF i > 0
        THEN [self |-> [m EXCEPT !.data[h][i] = <<k, v>>], ret |-> Some(v)]
        ELSE [self |-> [m EXCEPT !.data[h] = Append(bucket, <<k, v>>)],
              ret |-> Some(v)]

HashMap_insert(m, k, v) ==
    LET h == Hash(k)
        bucket == m.data[h]
        i == IndexOf(bucket, k)
    IN  IF i > 0
        THEN [self |-> [m EXCEPT !.data[h][i] = <<k, v>>],
              ret |-> Some(bucket[i][2])]
        ELSE [self |-> [m EXCEPT !.data[h] = Append(bucket, <<k, v>>)],
              ret |-> None]

\* std::collections::BTreeMap: the entries in key order.

\* The number of entries whose key is smaller than k.
Rank(entries, k) == Cardinality({i \in 1..Len(entries) : entries[i][1] < k})

BTreeMap_new == [kind |-> "btree", data |-> <<>>]

BTreeMap_get(m, k) ==
    LET r == Rank(m.data, k)
    IN  [self |-> m,
         ret |-> IF r < Len(m.data) /\ m.data[r + 1][1] = k
                 THEN Some(m.data[r + 1][2]) ELSE None]

\* BTreeMap_insert that keeps the value of a key it already holds.
BTreeMap_insert_keep_old(m, k, v) ==
    LET r == Rank(m.data, k)
    IN  IF r < Len(m.data) /\ m.data[r + 1][1] = k
        THEN [self |-> m, ret |-> Some(m.data[r + 1][2])]
        ELSE [self |-> [m EXCEPT !.data = SubSeq(m.data, 1, r) \o <<<<k, v>>>>
                                          \o SubSeq(m.data, r + 1, Len(m.data))],
              ret |-> None]

BTreeMap_insert(m, k, v) ==
    LET r == Rank(m.data, k)
    IN  IF r < Len(m.data) /\ m.data[r + 1][1] = k
        THEN [self |-> [m EXCEPT !.data[r + 1] = <<k, v>>],
              ret |-> Some(m.data[r + 1][2])]
        ELSE [self |-> [m EXCEPT !.data = SubSeq(m.data, 1, r) \o <<<<k, v>>>>
                                          \o SubSeq(m.data, r + 1, Len(m.data))],
              ret |-> None]

\* trait Map, dispatched on the implementing container.

Map_get(m, k) ==
    IF m.kind = "hash" THEN HashMap_get(m, k) ELSE BTreeMap_get(m, k)

Map_insert(m, k, v) ==
    IF m.kind = "hash" THEN HashMap_insert(m, k, v) ELSE BTreeMap_insert(m, k, v)

-----------------------------------------------------------------------------
\* std::collections::HashSet / BTreeSet: a map from the members to ().

HashSet_new == HashMap_new
BTreeSet_new == BTreeMap_new

HashSet_contains(s, x) ==
    [self |-> HashMap_get(s, x).self, ret |-> HashMap_get(s, x).ret # None]

\* HashSet_insert reporting whether the value was already a member.
HashSet_insert_was_member(s, x) ==
    LET r == HashMap_insert(s, x, Unit)
    IN  [self |-> r.self, ret |-> r.ret # None]

HashSet_insert(s, x) ==
    LET r == HashMap_insert(s, x, Unit)
    IN  [self |-> r.self, ret |-> r.ret = None]

BTreeSet_contains(s, x) ==
    [self |-> BTreeMap_get(s, x).self, ret |-> BTreeMap_get(s, x).ret # None]

BTreeSet_insert(s, x) ==
    LET r == BTreeMap_insert(s, x, Unit)
    IN  [self |-> r.self, ret |-> r.ret = None]

\* trait Set, dispatched on the implementing container.

Set_contains(s, x) ==
    IF s.kind = "hash" THEN HashSet_contains(s, x) ELSE BTreeSet_contains(s, x)

Set_insert(s, x) ==
    IF s.kind = "hash" THEN HashSet_insert(s, x) ELSE BTreeSet_insert(s, x)

-----------------------------------------------------------------------------
\* LastInsertMap: an inner map and a copy of the key and the value inserted
\* last.

\* LastInsertMap_new that sets the shadow and forgets the insert.
LastInsertMap_new_no_insert(m, key, value) ==
    [inner_map |-> m, last_key |-> key, last_value |-> value]

LastInsertMap_new(m, key, value) ==
    [inner_map |-> Map_insert(m, key, value).self,
     last_key |-> key,
     last_value |-> value]

LastInsertMap_get_last_insert(self) == <<self.last_key, self.last_value>>

\* LastInsertMap_get that records the key it found as the last key.
LastInsertMap_get_touch(self, k) ==
    LET r == Map_get(self.inner_map, k)
    IN  [self |-> IF r.ret = None THEN self ELSE [self EXCEPT !.last_key = k],
         ret |-> r.ret]

LastInsertMap_get(self, k) ==
    LET r == Map_get(self.inner_map, k)
    IN  [self |-> [self EXCEPT !.inner_map = r.self], ret |-> r.ret]

\* LastInsertMap_insert that moves the shadow only for a new key.
LastInsertMap_insert_new_only(self, k, v) ==
    LET r == Map_insert(self.inner_map, k, v)
    IN  [self |-> IF r.ret = None
                  THEN [inner_map |-> r.self, last_key |-> k, last_value |-> v]
                  ELSE [self EXCEPT !.inner_map = r.self],
         ret |-> r.ret]

\* LastInsertMap_insert that drops what the inner map returned.
LastInsertMap_insert_drop_ret(self, k, v) ==
    LET s1 == [self EXCEPT !.last_key = k, !.last_value = v]
        r == Map_insert(s1.inner_map, k, v)
    IN  [self |-> [s1 EXCEPT !.inner_map = r.self], ret |-> None]

LastInsertMap_insert(self, k, v) ==
    LET s1 == [self EXCEPT !.last_key = k, !.last_value = v]
        r == Map_insert(s1.inner_map, k, v)
    IN  [self |-> [s1 EXCEPT !.inner_map = r.self], ret |-> r.ret]

\* LastInsertSet: an inner set and a copy of the value inserted last.

LastInsertSet_new(s, value) ==
    [inner_set |-> Set_insert(s, value).self, last_value |-> value]

LastInsertSet_get_last_insert(self) == self.last_value

LastInsertSet_contains(self, x) ==
    LET r == Set_contains(self.inner_set, x)
    IN  [self |-> [self EXCEPT !.inner_set = r.self], ret |-> r.ret]

\* LastInsertSet_insert that moves the shadow only for a new member.
LastInsertSet_insert_new_only(self, x) ==
    LET r == Set_insert(self.inner_set, x)
    IN  [self |-> IF r.ret
                  THEN [inner_set |-> r.self, last_value |-> x]
                  ELSE [self EXCEPT !.inner_set = r.self],
         ret |-> r.ret]

LastInsertSet_insert(self, x) ==
    LET s1 == [self EXCEPT !.last_value = x]
        r == Set_insert(s1.inner_set, x)
    IN  [self |-> [s1 EXCEPT !.inner_set = r.self], ret |-> r.ret]

-----------------------------------------------------------------------------
\* AsyncMap for every Map: get and insert build a future that borrows the
\* map and keeps the arguments; poll calls the map.  polls counts the polls
\* of a future.

NoFuture == [type |-> "none"]

SyncGetFuture_new(k) == [type |-> "get", key |-> k, polls |-> 0]

SyncGetFuture_poll(f, m) ==
    LET r == Map_get(m, f.key)
    IN  [self |-> r.self, ret |-> Ready(r.ret)]

SyncInsertFuture_new(k, v) ==
    [type |-> "insert", key |-> k, value |-> v, polls |-> 0]

\* SyncInsertFuture_poll that inserts and reports no displaced value.
SyncInsertFuture_poll_drop_ret(f, m) ==
    LET r == Map_insert(m, f.key, f.value)
    IN  [self |-> r.self, ret |-> Ready(None)]

SyncInsertFuture_poll(f, m) ==
    LET r == Map_insert(m, f.key, f.value)
    IN  [self |-> r.self, ret |-> Ready(r.ret)]

AsyncMap_get(m, k) == [self |-> m, fut |-> SyncGetFuture_new(k)]

\* AsyncMap_insert that inserts at the call, before the future is polled.
AsyncMap_insert_eager(m, k, v) ==
    [self |-> Map_insert(m, k, v).self, fut |-> SyncInsertFuture_new(k, v)]

AsyncMap_insert(m, k, v) == [self |-> m, fut |-> SyncInsertFuture_new(k, v)]

-----------------------------------------------------------------------------
\* The twin: a bare container of the same kind that is called directly.

Tracked(m, r) == [state |-> "tracked", self |-> m, ret |-> r]
NoTwin == [state |-> "none"]
DivergedTwin == [state |-> "diverged"]

TwinGet(t, k) ==
    IF t.state = "tracked"
    THEN Tracked(Map_get(t.self, k).self, Map_get(t.self, k).ret)
    ELSE t

TwinInsert(t, k, v) ==
    IF t.state = "tracked"
    THEN Tracked(Map_insert(t.self, k, v).self, Map_insert(t.self, k, v).ret)
    ELSE t

-----------------------------------------------------------------------------
\* The client program.

Init ==
    /\ subject \in {"Map", "Set", "AsyncMap"}
    /\ \E c \in {HashMap_new, BTreeMap_new} :
          /\ map = IF subject = "Set" THEN Absent ELSE c
          /\ set = IF subject = "Set" THEN c ELSE Absent
          /\ twin = IF subject = "AsyncMap" THEN Tracked(c, None) ELSE NoTwin
    /\ lim = Absent
    /\ lis = Absent
    /\ fut = NoFuture
    /\ call = [op |-> "new"]
    /\ lastIns = Absent

\* map.get(&k)
MapGet ==
    /\ subject = "Map"
    /\ \E k \in Keys :
          LET r == Map_get(map, k)
          IN  /\ map' = r.self
              /\ call' = [op |-> "get", k |-> k, ret |-> r.ret]
    /\ UNCHANGED <<subject, set, lim, lis, fut, twin, lastIns>>

\* map.insert(k, v)
MapInsert ==
    /\ subject = "Map"
    /\ \E k \in Keys, v \in Vals :
          LET r == Map_insert(map, k, v)
          IN  /\ map' = r.self
              /\ call' = [op |-> "insert", k |-> k, v |-> v, ret |-> r.ret]
    /\ UNCHANGED <<subject, set, lim, lis, fut, twin, lastIns>>

\* LastInsertMap::new(map, key, value): the map moves into the decorator.
LimNew ==
    /\ subject = "Map"
    /\ \E k \in Keys, v \in Vals :
          /\ lim' = LastInsertMap_new(map, k, v)
          /\ twin' = TwinInsert(Tracked(map, None), k, v)
          /\ call' = [op |-> "new", k |-> k, v |-> v]
          /\ lastIns' = <<k, v>>
    /\ subject' = "LastInsertMap"
    /\ map' = Absent
    /\ UNCHANGED <<set, lis, fut>>

\* lim.get(&k)
LimGet ==
    /\ subject = "LastInsertMap"
    /\ \E k \in Keys :
          LET r == LastInsertMap_get(lim, k)
          IN  /\ lim' = r.self
              /\ call' = [op |-> "get", k |-> k, ret |-> r.ret]
              /\ twin' = TwinGet(twin, k)
    /\ UNCHANGED <<subject, map, set, lis, fut, lastIns>>

\* lim.insert(k, v)
LimInsert ==
    /\ subject = "LastInsertMap"
    /\ \E k \in Keys, v \in Vals :
          LET r == LastInsertMap_insert(lim, k, v)
          IN  /\ lim' = r.self
              /\ call' = [op |-> "insert", k |-> k, v |-> v, ret |-> r.ret]
              /\ twin' = TwinInsert(twin, k, v)
              /\ lastIns' = <<k, v>>
    /\ UNCHANGED <<subject, map, set, lis, fut>>

\* set.contains(&x)
SetContains ==
    /\ subject = "Set"
    /\ \E x \in Keys :
          LET r == Set_contains(set, x)
          IN  /\ set' = r.self
              /\ call' = [op |-> "contains", k |-> x, ret |-> r.ret]
    /\ UNCHANGED <<subject, map, lim, lis, fut, twin, lastIns>>

\* set.insert(x)
SetInsert ==
    /\ subject = "Set"
    /\ \E x \in Keys :
          LET r == Set_insert(set, x)
          IN  /\ set' = r.self
              /\ call' = [op |-> "insert", k |-> x, ret |-> r.ret]
    /\ UNCHANGED <<subject, map, lim, lis, fut, twin, lastIns>>

\* LastInsertSet::new(set, value): the set moves into the decorator.
LisNew ==
    /\ subject = "Set"
    /\ \E x \in Keys :
          /\ lis' = LastInsertSet_new(set, x)
          /\ call' = [op |-> "new", k |-> x]
          /\ lastIns' = x
    /\ subject' = "LastInsertSet"
    /\ set' = Absent
    /\ UNCHANGED <<map, lim, fut, twin>>

\* lis.contains(&x)
LisContains ==
    /\ subject = "LastInsertSet"
    /\ \E x \in Keys :
          LET r == LastInsertSet_contains(lis, x)
          IN  /\ lis' = r.self
              /\ call' = [op |-> "contains", k |-> x, ret |-> r.ret]
    /\ UNCHANGED <<subject, map, set, lim, fut, twin, lastIns>>

\* lis.insert(x)
LisInsert ==
    /\ subject = "LastInsertSet"
    /\ \E x \in Keys :
          LET r == LastInsertSet_insert(lis, x)
          IN  /\ lis' = r.self
              /\ call' = [op |-> "insert", k |-> x, ret |-> r.ret]
              /\ lastIns' = x
    /\ UNCHANGED <<subject, map, set, lim, fut, twin>>

\* AsyncMap::get(&map, &k): the future borrows the map, so the client holds
\* one future at a time.
AsyncGet ==
    /\ subject = "AsyncMap"
    /\ fut = NoFuture
    /\ \E k \in Keys :
          LET r == AsyncMap_get(map, k)
          IN  /\ map' = r.self
              /\ fut' = r.fut
              /\ call' = [op |-> "async_get", k |-> k]
              /\ twin' = TwinGet(twin, k)
    /\ UNCHANGED <<subject, set, lim, lis, lastIns>>

\* AsyncMap::insert(&mut map, k, v)
AsyncInsert ==
    /\ subject = "AsyncMap"
    /\ fut = NoFuture
    /\ \E k \in Keys, v \in Vals :
          LET r == AsyncMap_insert(map, k, v)
          IN  /\ map' = r.self
              /\ fut' = r.fut
              /\ call' = [op |-> "async_insert", k |-> k, v |-> v]
              /\ twin' = TwinInsert(twin, k, v)
    /\ UNCHANGED <<subject, set, lim, lis, lastIns>>

\* Future::poll on the future the client holds.  A second poll takes the
\* twin out of step.
Poll ==
    /\ subject = "AsyncMap"
    /\ fut # NoFuture
    /\ fut.polls < MaxPolls
    /\ LET r == IF fut.type = "get" THEN SyncGetFuture_poll(fut, map)
                                    ELSE SyncInsertFuture_poll(fut, map)
       IN  /\ map' = r.self
           /\ call' = [op |-> "poll", ret |-> r.ret]
    /\ fut' = [fut EXCEPT !.polls = @ + 1]
    /\ twin' = IF fut.polls = 0 THEN twin ELSE DivergedTwin
    /\ UNCHANGED <<subject, set, lim, lis, lastIns>>

\* The client drops the future.  Dropping one that was never polled takes
\* the twin out of step.
DropFuture ==
    /\ subject = "AsyncMap"
    /\ fut # NoFuture
    /\ fut' = NoFuture
    /\ twin' = IF fut.polls = 1 THEN twin ELSE DivergedTwin
    /\ UNCHANGED <<subject, map, set, lim, lis, call, lastIns>>

Next ==
    \/ MapGet
    \/ MapInsert
    \/ LimNew
    \/ LimGet
    \/ LimInsert
    \/ SetContains
    \/ SetInsert
    \/ LisNew
    \/ LisContains
    \/ LisInsert
    \/ AsyncGet
    \/ AsyncInsert
    \/ Poll
    \/ DropFuture

Spec == Init /\ [][Next]_vars

-----------------------------------------------------------------------------
\* What the properties read.

\* The entries a container holds, whatever its layout.
Flatten(m) ==
    IF m.kind = "hash"
    THEN UNION {{m.data[b][i] : i \in 1..Len(m.data[b])} : b \in DOMAIN m.data}
    ELSE {m.data[i] : i \in 1..Len(m.data)}

Options == {None} \cup {Some(v) : v \in Vals}

IsMap == subject \in {"Map", "LastInsertMap"}
IsSet == subject \in {"Set", "LastInsertSet"}

\* What get(k) / contains(x) answers in the current state.
Lookup(k) ==
    IF subject = "Map" THEN Map_get(map, k).ret
    ELSE LastInsertMap_get(lim, k).ret

Member(x) ==
    IF subject = "Set" THEN Set_contains(set, x).ret
    ELSE LastInsertSet_contains(lis, x).ret

\* C1: on a map (bare or decorated, hash or tree), insert(k, v) of a key
\* that has no entry returns None, the map then answers v for k, and a get(k)
\* called right after the insert returns v.
C1_InsertNew ==
    [][(IsMap /\ subject' = subject) =>
          /\ \A k \in Keys :
                (call'.op = "insert" /\ call'.k = k /\ Lookup(k) = None) =>
                   /\ call'.ret = None
                   /\ Lookup(k)' = Some(call'.v)
          /\ (call.op = "insert" /\ call.ret = None
                /\ call'.op = "get" /\ call'.k = call.k) =>
                call'.ret = Some(call.v)]_vars

\* A new key was inserted into a hash bucket that already held a colliding key.
C1_Witness ==
    /\ subject = "Map"
    /\ map.kind = "hash"
    /\ call.op = "insert"
    /\ call.ret = None
    /\ Len(map.data[Hash(call.k)]) = 2
    /\ Lookup(call.k) = Some(call.v)

\* C2: insert(k, v2) of a key mapped to v1 returns Some(v1) and the map then
\* answers v2 for k; an insert of the same key right after returns Some(v2).
C2_InsertExisting ==
    [][(IsMap /\ subject' = subject) =>
          /\ \A k \in Keys :
                (call'.op = "insert" /\ call'.k = k /\ Lookup(k) # None) =>
                   /\ call'.ret = Lookup(k)
                   /\ Lookup(k)' = Some(call'.v)
          /\ (call.op = "insert" /\ call'.op = "insert" /\ call'.k = call.k) =>
                call'.ret = Some(call.v)]_vars

\* A tree map's value 1 was displaced by 2.
C2_Witness ==
    /\ subject = "Map"
    /\ map.kind = "btree"
    /\ call.op = "insert"
    /\ call.ret = Some(1)
    /\ call.v = 2
    /\ Lookup(call.k) = Some(2)

\* C3: on a set (bare or decorated), insert(x) of a value that is no member
\* returns true and x is a member afterwards; insert(x) of a member returns
\* false and changes the answer of contains for no value.
C3_SetInsert ==
    [][(IsSet /\ subject' = subject /\ call'.op = "insert") =>
          \A x \in Keys :
             call'.k = x =>
                IF Member(x)
                THEN /\ call'.ret = FALSE
                     /\ \A y \in Keys : Member(y)' = Member(y)
                ELSE /\ call'.ret = TRUE
                     /\ Member(x)']_vars

\* A member was inserted again.
C3_Witness ==
    /\ subject = "Set"
    /\ call.op = "insert"
    /\ call.ret = FALSE
    /\ Member(call.k)

\* C4: get_last_insert() of a LastInsertMap returns the key and the value of
\* the most recent insert call, or those given to new when there was none.
C4_LastInsert ==
    subject = "LastInsertMap" =>
        LastInsertMap_get_last_insert(lim) = lastIns

\* The most recent insert overwrote a key the map already held.
C4_Witness ==
    /\ subject = "LastInsertMap"
    /\ call.op = "insert"
    /\ call.ret # None
    /\ LastInsertMap_get_last_insert(lim) = <<call.k, call.v>>

\* C5: a LastInsertMap and a bare map of the same kind that received the
\* same calls agree: the last call returned the same, and get answers the
\* same for every key.
C5_SameAsInner ==
    subject = "LastInsertMap" =>
        /\ twin.state = "tracked"
        /\ call.op \in {"get", "insert"} => call.ret = twin.ret
        /\ \A k \in Keys :
              LastInsertMap_get(lim, k).ret = Map_get(twin.self, k).ret

\* An insert through the decorator displaced a value.
C5_Witness ==
    /\ subject = "LastInsertMap"
    /\ call.op = "insert"
    /\ call.ret # None
    /\ twin.ret = call.ret

\* C6: when every future was polled once, right after the call that made it,
\* the poll yields what the direct call on the twin returned and the map is
\* in the twin's state.
C6_AsyncEquivalent ==
    (subject = "AsyncMap" /\ twin.state = "tracked"
        /\ (fut = NoFuture \/ fut.polls = 1)) =>
        /\ map = twin.self
        /\ call.op = "poll" => call.ret = Ready(twin.ret)

\* An insert future polled once reported a displaced value.
C6_Witness ==
    /\ subject = "AsyncMap"
    /\ twin.state = "tracked"
    /\ fut.type = "insert"
    /\ fut.polls = 1
    /\ call.ret = Ready(Some(1))
    /\ fut.value = 2

\* C7 as stated: once insert(k, v) has returned its future the map holds
\* (k, v), polled or not.
C7_EagerInsert ==
    (subject = "AsyncMap" /\ fut.type = "insert") =>
        Map_get(map, fut.key).ret = Some(fut.value)

\* C7 as the code has it: get and insert leave the map as it is and only
\* build the future; each poll of an insert future inserts (k, v) into the
\* map as it is then and reports the displaced value as Ready; each poll of a
\* get future looks the key up then and leaves the map as it is.
C7_LazyInsert ==
    [][subject = "AsyncMap" =>
          /\ (fut = NoFuture /\ fut' # NoFuture) => map' = map
          /\ (fut.type = "insert" /\ fut' # NoFuture
                /\ fut'.polls = fut.polls + 1) =>
                /\ call'.ret = Ready(Map_get(map, fut.key).ret)
                /\ Map_get(map', fut.key).ret = Some(fut.value)
                /\ \A k \in Keys \ {fut.key} :
                      Map_get(map', k).ret = Map_get(map, k).ret
          /\ (fut.type = "get" /\ fut' # NoFuture
                /\ fut'.polls = fut.polls + 1) =>
                /\ call'.ret = Ready(Map_get(map, fut.key).ret)
                /\ map' = map]_vars

\* An insert future exists, unpolled, and the map has no entry for its key.
C7_Witness ==
    /\ subject = "AsyncMap"
    /\ fut.type = "insert"
    /\ fut.polls = 0
    /\ Map_get(map, fut.key).ret = None

\* C8: every insert on a LastInsertSet moves the shadow to the value and
\* returns what the inner set returns; for a member that is false, and the
\* answer of contains changes for no value.
C8_SetShadow ==
    [][(subject = "LastInsertSet" /\ subject' = subject
          /\ call'.op = "insert") =>
          /\ LastInsertSet_get_last_insert(lis') = call'.k
          /\ call'.ret = ~Member(call'.k)
          /\ Member(call'.k) => \A y \in Keys : Member(y)' = Member(y)]_vars

\* A member other than the seed was inserted again and is the shadow.
C8_Witness ==
    /\ subject = "LastInsertSet"
    /\ call.op = "insert"
    /\ call.ret = FALSE
    /\ LastInsertSet_get_last_insert(lis) = call.k
    /\ Cardinality(Flatten(lis.inner_set)) > 1

\* C9: get and contains change neither the container nor the decorator's
\* shadow, and answer None / false for a miss: an Option, Some exactly when
\* the container holds an entry for the key.
C9_ReadOnly ==
    [][(subject' = subject /\ call'.op \in {"get", "contains"}) =>
          /\ map' = map /\ set' = set /\ lim' = lim /\ lis' = lis
          /\ call'.op = "get" =>
                /\ call'.ret \in Options
                /\ call'.ret # None <=>
                      \E e \in Flatten(IF subject = "Map" THEN map
                                       ELSE lim.inner_map) : e[1] = call'.k
          /\ call'.op = "contains" =>
                call'.ret = (\E e \in Flatten(IF subject = "Set" THEN set
                                              ELSE lis.inner_set) :
                                e[1] = call'.k)]_vars

\* A get through the decorator hit a key other than the shadow's.
C9_Witness ==
    /\ subject = "LastInsertMap"
    /\ call.op = "get"
    /\ call.ret # None
    /\ call.k # lim.last_key

\* C10: a LastInsertMap's inner map is never empty and maps the shadow key
\* to the shadow value.
C10_ShadowInInner ==
    subject = "LastInsertMap" =>
        /\ Flatten(lim.inner_map) # {}
        /\ LastInsertMap_get(lim, lim.last_key).ret = Some(lim.last_value)

\* new was given a map that already held two entries.
C10_Witness ==
    /\ subject = "LastInsertMap"
    /\ call.op = "new"
    /\ Cardinality(Flatten(lim.inner_map)) > 2

=============================================================================
